---- MODULE Spec2Model ----
(***************************************************************************)
(* The DOM stack of src/document/dom/stack.c: a growable array of per-depth*)
(* states (frames), an optional array of per-state objects (payloads),     *)
(* push/pop with per-node-type callbacks, the search-and-unwind of         *)
(* pop_dom_nodes and the iterative tree walk of walk_dom_nodes.            *)
(***************************************************************************)
EXTENDS Integers, Sequences, FiniteSets, TLC

VARIABLES stack, log, ret, pc, pre, last, exit_types, mark

vars == <<stack, log, ret, pc, pre, last, exit_types, mark>>

(***************************************************************************)
(* Bounds of the model.                                                    *)
(***************************************************************************)
\* the depth limit of stack.h, scaled down; the chain tree is two nodes deeper
DOM_STACK_MAX_DEPTH == 8
\* the caller itself pushes only onto a stack less deep than this
MaxPushDepth == 3
\* deepest stack on which the caller starts a walk
MaxWalkDepth == 1

(***************************************************************************)
(* Program constants.                                                      *)
(***************************************************************************)
DOM_STACK_STATE_GRANULARITY == 7

NULL == 0

(***************************************************************************)
(* The node model (document/dom/node.h): the node types the walk switches  *)
(* on, and a fixed universe of nodes.  A list is a pointer: 0 is the NULL  *)
(* list, 2n the first list of node n and 2n+1 its second list.             *)
(***************************************************************************)
DOM_NODE_ELEMENT == "ELEMENT"
DOM_NODE_ATTRIBUTE == "ATTRIBUTE"
DOM_NODE_TEXT == "TEXT"
DOM_NODE_DOCUMENT == "DOCUMENT"
DOM_NODE_DOCUMENT_TYPE == "DOCUMENT_TYPE"
DOM_NODE_ENTITY == "ENTITY"
DOM_NODE_NOTATION == "NOTATION"
DOM_NODE_PROCESSING_INSTRUCTION == "PROCESSING_INSTRUCTION"

\* the chain tree: elements ChainFirst .. ChainLast, each the only child of
\* the one before; its height exceeds every depth the stack accepts
StaticNodes == 1 .. 12
ChainFirst == Cardinality(StaticNodes) + 1
ChainLen == DOM_STACK_MAX_DEPTH + 2
ChainLast == ChainFirst + ChainLen - 1
ChainNodes == ChainFirst .. ChainLast
Nodes == StaticNodes \cup ChainNodes

\* [type, string, first, second, e1, e2]: first/second say whether the node's
\* first and second list pointers are non-NULL, e1/e2 are their entries
N(t, s, f1, e1, f2, e2) ==
    [type |-> t, string |-> s, first |-> f1, e1 |-> e1, second |-> f2, e2 |-> e2]

dom_node(n) ==
    CASE n = 1 -> N(DOM_NODE_DOCUMENT, "doc", TRUE, <<2>>, FALSE, <<>>)
      [] n = 2 -> N(DOM_NODE_ELEMENT, "div", TRUE, <<3>>, TRUE, <<4, 6>>)
      [] n = 3 -> N(DOM_NODE_ATTRIBUTE, "id", FALSE, <<>>, FALSE, <<>>)
      [] n = 4 -> N(DOM_NODE_ELEMENT, "span", FALSE, <<>>, TRUE, <<5>>)
      [] n = 5 -> N(DOM_NODE_TEXT, "x", FALSE, <<>>, FALSE, <<>>)
      [] n = 6 -> N(DOM_NODE_ELEMENT, "script", TRUE, <<>>, TRUE, <<7>>)
      [] n = 7 -> N(DOM_NODE_TEXT, "y", FALSE, <<>>, FALSE, <<>>)
      [] n = 8 -> N(DOM_NODE_DOCUMENT_TYPE, "html", TRUE, <<9>>, TRUE, <<10>>)
      [] n = 9 -> N(DOM_NODE_ENTITY, "amp", FALSE, <<>>, FALSE, <<>>)
      [] n = 10 -> N(DOM_NODE_NOTATION, "gif", FALSE, <<>>, FALSE, <<>>)
      [] n = 11 -> N(DOM_NODE_PROCESSING_INSTRUCTION, "xml", TRUE, <<12>>, FALSE, <<>>)
      [] n = 12 -> N(DOM_NODE_ATTRIBUTE, "version", FALSE, <<>>, FALSE, <<>>)
      [] n \in ChainNodes ->
            N(DOM_NODE_ELEMENT, "li", FALSE, <<>>,
              n < ChainLast, IF n < ChainLast THEN <<n + 1>> ELSE <<>>)

first_list(n) == IF dom_node(n).first THEN 2 * n ELSE NULL
second_list(n) == IF dom_node(n).second THEN 2 * n + 1 ELSE NULL

entries(list) ==
    IF list = NULL THEN <<>>
    ELSE IF list % 2 = 0 THEN dom_node(list \div 2).e1
    ELSE dom_node(list \div 2).e2

\* node.h: is there an entry at this index of the list (false for NULL)
is_dom_node_list_member(list, index) ==
    list # NULL /\ index >= 0 /\ index < Len(entries(list))

(***************************************************************************)
(* The stack (document/dom/stack.h).  A state is                           *)
(* [node, list, index, callback, data]; data is NULL or 1 + the position   *)
(* of the state's object in state_objects.  states and state_objects are   *)
(* the allocated arrays, entry i of the C array at index i+1.              *)
(***************************************************************************)
\* a callback pointer is the name of the callback, "" the NULL one
NoCallback == ""

ZeroState ==
    [node |-> NULL, list |-> NULL, index |-> 0, callback |-> NoCallback, data |-> NULL]

\* the callback table the caller hands to init_dom_stack: attribute nodes
\* have no callback, every other type has one (named by its type)
callbacks(type) == IF type = DOM_NODE_ATTRIBUTE THEN NoCallback ELSE type

\* stack.h: the stack has a state to pop
dom_stack_has_parents(s) == Len(s.states) > 0 /\ s.depth > 0

\* util/memory.h: round a size up with the granularity mask
ALIGN_MEMORY_SIZE(x) ==
    ((x + DOM_STACK_STATE_GRANULARITY) \div (DOM_STACK_STATE_GRANULARITY + 1))
        * (DOM_STACK_STATE_GRANULARITY + 1)

\* util/memory.h, mem_align_alloc: reallocates when the aligned size grows,
\* keeps the old entries and zeroes the new ones
mem_align_alloc(arr, old, new, zero) ==
    IF ALIGN_MEMORY_SIZE(new) > ALIGN_MEMORY_SIZE(old)
    THEN [i \in 1 .. ALIGN_MEMORY_SIZE(new) |->
            IF i <= ALIGN_MEMORY_SIZE(old) /\ i <= Len(arr) THEN arr[i] ELSE zero]
    ELSE arr

\* does this call of mem_align_alloc reach realloc, which may fail
mem_align_reallocs(old, new) == ALIGN_MEMORY_SIZE(new) > ALIGN_MEMORY_SIZE(old)

\* a reallocation that does not keep the old states
realloc_dom_stack_states_fresh(states, size) ==
    IF mem_align_reallocs(size, size + 1)
    THEN [i \in 1 .. ALIGN_MEMORY_SIZE(size + 1) |-> ZeroState]
    ELSE states

realloc_dom_stack_states(states, size) == mem_align_alloc(states, size, size + 1, ZeroState)

realloc_dom_stack_state_objects(s) == mem_align_alloc(s.state_objects, s.depth, s.depth + 1, 0)

\* init_dom_stack: everything zero but the configured object size
init_dom_stack(object_size) ==
    [states |-> <<>>, depth |-> 0, state_objects |-> <<>>, object_size |-> object_size]

(***************************************************************************)
(* Calls are modelled as operators on w = [stack, log, ret]: the stack, the*)
(* events of the running top-level call and the value the call returns.    *)
(* Events are <<kind, node, x, depth>>, depth being the depth of the stack *)
(* when push_dom_node or do_pop_dom_node was entered:                      *)
(* "push" (a state was pushed and stays; x is 1 when the state's callback  *)
(* field is set on return, else 0), "reject" (the entry callback returned  *)
(* NULL), "fail" (depth limit or allocation failure, no callback), "exit"  *)
(* (the callback of the state of node was invoked on pop with context node *)
(* x), "pop" (the state of node was popped) and "crash" (the walk read the *)
(* type of a NULL node).                                                   *)
(***************************************************************************)
Event(w, kind, node, x) == Append(w.log, <<kind, node, x, w.stack.depth>>)

IsSet(callback) == IF callback # NoCallback THEN 1 ELSE 0

\* the node an entry callback returns when it accepts: the node itself,
\* but for "span", for which the element callback substitutes "script"
substitute(node) == IF node = 4 THEN 6 ELSE node

\* the nodes the entry callbacks may reject
Rejectable == {1, 4, 6, 8, ChainFirst + 2}

\* the answers of a callback that calls push_dom_node or pop_dom_node on the
\* stack itself before it returns: it pushes the node InnerNode (accepted),
\* or pops the top state (o.garbage is what a read before the states array
\* yields), and then accepts or rejects
InnerPush == {"push_accept", "push_reject"}
InnerPop == {"pop_accept", "pop_reject"}
\* the node such a callback pushes: the attribute "id"
InnerNode == 3

RECURSIVE push_dom_node(_, _, _), pop_dom_node(_, _)

\* What an entry callback does (the callbacks are the caller's): those of
\* the types in exit_types store themselves in the callback field of the
\* top state, every callback writes its object when it is handed one, a
\* re-entrant one then makes its call on the stack, and it returns the node
\* (or its substitute), or NULL when cb says so and the node is one it may
\* reject.
entry_callback(w, pos, node, o) ==
    LET s == w.stack
        cb == o.cb
        type == dom_node(node).type
        data == s.states[pos].data
        s1 == IF type \in exit_types
              THEN [s EXCEPT !.states[pos].callback = callbacks(type)]
              ELSE s
        s2 == IF data # NULL /\ data <= Len(s1.state_objects)
              THEN [s1 EXCEPT !.state_objects[data] = 1]
              ELSE s1
        w2 == [w EXCEPT !.stack = s2]
        w3 == IF cb \in InnerPush
              THEN push_dom_node(w2, InnerNode, [oom |-> 0, cb |-> "accept"])
              ELSE IF cb \in InnerPop THEN pop_dom_node(w2, o.garbage)
              ELSE w2
    IN  [stack |-> w3.stack,
         log |-> w3.log,
         node |-> IF \/ cb = "reject" /\ node \in Rejectable
                     \/ cb \in {"push_reject", "pop_reject"}
                  THEN NULL
                  ELSE substitute(node)]

\* a depth test that is missing
depth_never_exceeded(s) == FALSE

\* a depth test that is one too lenient
depth_exceeded_late(s) == s.depth > DOM_STACK_MAX_DEPTH + 1

\* a depth test that refuses the push at the limit already
depth_exceeded_early(s) == s.depth >= DOM_STACK_MAX_DEPTH

\* the depth test of push_dom_node
depth_exceeded(s) == s.depth > DOM_STACK_MAX_DEPTH

\* a rejection that takes the depth back but leaves the state as it is
reject_state_keep_state(s, pos) == [s EXCEPT !.depth = s.depth - 1]

\* a rejection that clears the state but leaves the depth
reject_state_keep_depth(s, pos) == [s EXCEPT !.states[pos] = ZeroState]

\* push_dom_node when the callback returned NULL: clear the state and
\* take the depth back
reject_state(s, pos) ==
    [s EXCEPT !.states[pos] = ZeroState, !.depth = s.depth - 1]

\* push_dom_node(stack, node); o.oom says which allocation fails (0: none,
\* 1: the states, 2: the state objects), o.cb what the entry callback answers
push_dom_node(w, node, o) ==
    LET s == w.stack
        failed == [w EXCEPT !.ret = NULL, !.log = Event(w, "fail", node, 0)]
    IN
    IF depth_exceeded(s) THEN failed
    ELSE IF o.oom = 1 /\ mem_align_reallocs(s.depth, s.depth + 1) THEN failed
    ELSE
      LET states1 == realloc_dom_stack_states(s.states, s.depth)
          pos == s.depth + 1
      IN
      IF s.object_size # 0 /\ o.oom = 2 /\ mem_align_reallocs(s.depth, s.depth + 1)
      THEN [failed EXCEPT !.stack.states = states1]
      ELSE
        LET objects1 == IF s.object_size # 0
                        THEN realloc_dom_stack_state_objects(s)
                        ELSE s.state_objects
            states2 == IF s.object_size # 0
                       THEN [states1 EXCEPT ![pos].data = pos]
                       ELSE states1
            s1 == [s EXCEPT !.states = [states2 EXCEPT ![pos].node = node],
                            !.state_objects = objects1,
                            !.depth = s.depth + 1]
            callback == callbacks(dom_node(node).type)
        IN
        IF callback = NoCallback
        THEN [stack |-> s1, ret |-> node,
              log |-> Event(w, "push", node, IsSet(s1.states[pos].callback))]
        ELSE
          LET r == entry_callback([w EXCEPT !.stack = s1], pos, node, o)
          IN  IF r.node = NULL
              THEN [stack |-> reject_state(r.stack, pos),
                    ret |-> NULL,
                    log |-> Append(r.log, <<"reject", node, 0, s.depth>>)]
              ELSE [stack |-> r.stack, ret |-> r.node,
                    log |-> Append(r.log, <<"push", node,
                                            IsSet(r.stack.states[pos].callback), s.depth>>)]

\* a pop that leaves the popped state as it was
keep_state(s, pos) == s

\* the memset of do_pop_dom_node: the popped state is cleared
clear_state(s, pos) == [s EXCEPT !.states[pos] = ZeroState]

\* a pop that never invokes the callback of the state
no_exit_callback(state) == FALSE

\* the test of do_pop_dom_node: the state has a callback to invoke
has_exit_callback(state) == state.callback # NoCallback

\* an exit callback handed the node of the state being popped
own_node(s, parent, garbage) == s.states[s.depth].node

\* parent->node, the node do_pop_dom_node hands to the exit callback
parent_node(s, parent, garbage) ==
    IF parent >= 1 /\ parent <= Len(s.states) THEN s.states[parent].node ELSE garbage

\* do_pop_dom_node(stack, parent); parent is the index of the state parent
\* points to, 0 when it points before the array (get_dom_stack_parent with a
\* single state), where parent->node reads whatever is there: garbage
do_pop_dom_node(w, parent, garbage) ==
    LET s == w.stack IN
    IF ~dom_stack_has_parents(s) THEN [w EXCEPT !.ret = 0]
    ELSE
      LET pos == s.depth
          state == s.states[pos]
          log1 == IF has_exit_callback(state)
                  THEN Event(w, "exit", state.node, parent_node(s, parent, garbage))
                  ELSE w.log
          depth1 == s.depth - 1
          objects1 == IF s.object_size # 0 /\ state.data # NULL
                      THEN [s.state_objects EXCEPT ![depth1 + 1] = 0]
                      ELSE s.state_objects
      IN  [stack |-> clear_state([s EXCEPT !.depth = depth1,
                                           !.state_objects = objects1], pos),
           log |-> Append(log1, <<"pop", state.node, 0, s.depth>>),
           ret |-> IF pos = parent THEN 1 ELSE 0]

\* stack.h: get_dom_stack_parent, the state below the top
get_dom_stack_parent(s) == s.depth - 1

\* a pop_dom_node that returns without popping
pop_dom_node_never(w, garbage) == w

\* pop_dom_node(stack)
pop_dom_node(w, garbage) ==
    IF ~dom_stack_has_parents(w.stack) THEN w
    ELSE do_pop_dom_node(w, get_dom_stack_parent(w.stack), garbage)

\* stack.h, search_dom_stack: the topmost state whose node has this type and
\* this string, 0 (NULL) when there is none
search_dom_stack(s, type, string) ==
    LET hits == {i \in 1 .. s.depth :
                    /\ s.states[i].node # NULL
                    /\ dom_node(s.states[i].node).type = type
                    /\ dom_node(s.states[i].node).string = string}
    IN  IF hits = {} THEN NULL ELSE CHOOSE i \in hits : \A j \in hits : j <= i

\* a loop that stops after its first pop
pop_once(w, parent, garbage) == do_pop_dom_node(w, parent, garbage)

\* the loop of pop_dom_nodes: pop until the popped state is parent
RECURSIVE pop_until(_, _, _)
pop_until(w, parent, garbage) ==
    LET w1 == do_pop_dom_node(w, parent, garbage)
    IN  IF w1.ret = 1 \/ ~dom_stack_has_parents(w1.stack) THEN w1
        ELSE pop_until(w1, parent, garbage)

\* pop_dom_nodes without the return for a search that found nothing
pop_dom_nodes_unchecked(w, type, string, garbage) ==
    IF ~dom_stack_has_parents(w.stack) THEN w
    ELSE pop_until(w, search_dom_stack(w.stack, type, string), garbage)

\* pop_dom_nodes(stack, type, string, length)
pop_dom_nodes(w, type, string, garbage) ==
    IF ~dom_stack_has_parents(w.stack) THEN w
    ELSE LET parent == search_dom_stack(w.stack, type, string)
         IN  IF parent = NULL THEN w
             ELSE pop_until(w, parent, garbage)

\* walk_list that never moves on to the second list of a node
walk_list_first_only(node, list0, index) ==
    IF list0 = NULL THEN first_list(node) ELSE list0

\* The switch of walk_dom_nodes: the list to iterate for the top state,
\* given the list and index the state holds
walk_list(node, list0, index) ==
    LET type == dom_node(node).type
        list == IF list0 = NULL THEN first_list(node) ELSE list0
    IN  CASE type = DOM_NODE_DOCUMENT -> list
          [] type = DOM_NODE_ELEMENT ->
                IF list = second_list(node) THEN list
                ELSE IF is_dom_node_list_member(list, index) /\ list = first_list(node)
                THEN list
                ELSE second_list(node)
          [] type = DOM_NODE_PROCESSING_INSTRUCTION -> list
          [] type = DOM_NODE_DOCUMENT_TYPE ->
                IF list = second_list(node) THEN list
                ELSE IF is_dom_node_list_member(list, index) /\ list = first_list(node)
                THEN list
                ELSE second_list(node)
          [] OTHER -> list0

\* a child taken with the index incremented first: the entry after the one at
\* the index (the last entry again when there is none after it)
next_child_preincrement(list, index) ==
    IF index + 2 <= Len(entries(list)) THEN entries(list)[index + 2]
    ELSE entries(list)[index + 1]

\* list->entries[state->index++]: the entry at the index (counted from 0)
next_child(list, index) == entries(list)[index + 1]

\* a walk that goes on with the top state although the push was refused
after_push_continue(w, garbage) == w

\* walk_dom_nodes after the push of a child: continue when the child was
\* pushed, else fall through to pop_dom_node
after_push(w, garbage) == IF w.ret # NULL THEN w ELSE pop_dom_node(w, garbage)

\* One iteration of the loop of walk_dom_nodes; node->type of a NULL node
\* ends the program
walk_iteration(w, o, garbage) ==
    LET s == w.stack
        pos == s.depth
        state == s.states[pos]
        list == walk_list(state.node, state.list, state.index)
        s1 == IF list # state.list
              THEN [s EXCEPT !.states[pos].list = list, !.states[pos].index = 0]
              ELSE s
        index == s1.states[pos].index
    IN  IF state.node = NULL THEN [w EXCEPT !.log = Event(w, "crash", NULL, 0)]
        ELSE IF is_dom_node_list_member(list, index)
        THEN LET child == next_child(list, index)
                 s2 == [s1 EXCEPT !.states[pos].index = index + 1]
                 w2 == push_dom_node([w EXCEPT !.stack = s2], child, o)
             IN  after_push(w2, garbage)
        ELSE pop_dom_node([w EXCEPT !.stack = s1], garbage)

(***************************************************************************)
(* The state machine: a caller that makes calls on one stack.              *)
(*  pre is the stack when the running (or last) call was made, last *)
(* names that call and its arguments, log holds its events, ret what       *)
(* push_dom_node last returned.  walk_dom_nodes takes one step per loop    *)
(* iteration (pc = "walk"); the other calls are one step each.             *)
(***************************************************************************)
\* The outcomes a push can have on stack s: an allocation can fail only
\* when the push reallocates, and the callback's answer matters only when
\* the push gets as far as the callback.
Outcomes(s) ==
    IF s.depth > DOM_STACK_MAX_DEPTH THEN {[oom |-> 0, cb |-> "accept"]}
    ELSE [oom : {0}, cb : {"accept", "reject"}]
         \cup IF mem_align_reallocs(s.depth, s.depth + 1)
              THEN [oom : IF s.object_size # 0 THEN {1, 2} ELSE {1}, cb : {"accept"}]
              ELSE {}

\* the nodes the caller pushes itself, and the roots it walks
PushNodes == {1, 2, 4}
WalkRoots == {1, 8, 11, ChainFirst}
\* the (type, string) pairs the caller unwinds to
Targets == {<<DOM_NODE_ELEMENT, "div">>, <<DOM_NODE_ELEMENT, "span">>,
            <<DOM_NODE_DOCUMENT, "doc">>, <<DOM_NODE_ELEMENT, "p">>}
\* what a read before the start of the states array may yield as a node;
\* it is read only when the single state left has a callback
GarbageNodes == {NULL, 1}
Garbage(s) ==
    IF s.depth = 1 /\ Len(s.states) > 0 /\ s.states[1].callback # NoCallback
    THEN GarbageNodes ELSE {NULL}

\* the sets of node types whose entry callback installs an exit callback
ExitTypes == {{}, {DOM_NODE_ELEMENT},
              {DOM_NODE_ELEMENT, DOM_NODE_DOCUMENT, DOM_NODE_TEXT}}

NoCall == [op |-> "none", node |-> NULL, type |-> "", string |-> ""]

\* no sequence of calls is being followed
NoMark == [set |-> FALSE, stack |-> init_dom_stack(0), open |-> 0, refused |-> FALSE]
Call(op, node, type, string) == [op |-> op, node |-> node, type |-> type, string |-> string]

Init ==
    /\ \E object_size \in {0, 1} : stack = init_dom_stack(object_size)
    /\ exit_types \in ExitTypes
    /\ log = <<>>
    /\ ret = NULL
    /\ pc = "idle"
    /\ pre = stack
    /\ last = NoCall
    /\ mark = NoMark

Called(call) ==
    /\ pc = "idle"
    /\ pre' = stack
    /\ last' = call
    /\ UNCHANGED exit_types

Begin(call) == Called(call) /\ UNCHANGED mark

Result(w) ==
    /\ stack' = w.stack
    /\ log' = w.log
    /\ ret' = w.ret

Crashed(l) == Len(l) > 0 /\ l[Len(l)][1] = "crash"

Fresh == [stack |-> stack, log |-> <<>>, ret |-> ret]
Running == [stack |-> stack, log |-> log, ret |-> ret]

Push ==
    \E node \in PushNodes, o \in Outcomes(stack) :
        /\ stack.depth < MaxPushDepth
        /\ Begin(Call("push_dom_node", node, "", ""))
        /\ Result(push_dom_node(Fresh, node, o))
        /\ pc' = "idle"

Pop ==
    \E garbage \in Garbage(stack) :
        /\ Begin(Call("pop_dom_node", NULL, "", ""))
        /\ Result(pop_dom_node(Fresh, garbage))
        /\ pc' = "idle"

PopNodes ==
    \E target \in Targets, garbage \in Garbage(stack) :
        /\ Begin(Call("pop_dom_nodes", NULL, target[1], target[2]))
        /\ Result(pop_dom_nodes(Fresh, target[1], target[2], garbage))
        /\ pc' = "idle"

\* walk_dom_nodes up to the loop: the push of the root
WalkStart ==
    \E root \in WalkRoots, o \in Outcomes(stack) :
        /\ stack.depth <= MaxWalkDepth
        /\ Begin(Call("walk_dom_nodes", root, "", ""))
        /\ Result(push_dom_node(Fresh, root, o))
        /\ pc' = "walk"

\* one iteration of the loop of walk_dom_nodes
WalkStep ==
    \E o \in Outcomes(stack), garbage \in GarbageNodes :
        /\ pc = "walk"
        /\ dom_stack_has_parents(stack)
        /\ Result(walk_iteration(Running, o, garbage))
        /\ pc' = IF Crashed(log') THEN "crashed" ELSE pc
        /\ UNCHANGED <<pre, last, exit_types, mark>>

\* the loop condition fails: walk_dom_nodes returns
WalkReturn ==
    /\ pc = "walk"
    /\ ~dom_stack_has_parents(stack)
    /\ pc' = "idle"
    /\ UNCHANGED <<stack, log, ret, pre, last, exit_types, mark>>

Next == Push \/ Pop \/ PopNodes \/ WalkStart \/ WalkStep \/ WalkReturn

Spec == Init /\ [][Next]_vars

(***************************************************************************)
(* A caller whose entry callbacks may also be re-entrant: the callback of  *)
(* the node pushed calls push_dom_node or pop_dom_node on the stack before *)
(* it returns.  The pushes are made at depths at which the call of the     *)
(* callback does not reallocate the states, so that the state pointer      *)
(* push_dom_node holds stays valid.  A rejection after the callback popped *)
(* the only state takes the depth below 0, where the assertion of          *)
(* push_dom_node ends the program.                                         *)
(***************************************************************************)
ReentrantOutcomes(s) ==
    [oom : {0}, cb : InnerPush \cup InnerPop, garbage : Garbage(s) \cup {NULL}]

PushReentrant ==
    \E node \in PushNodes, o \in ReentrantOutcomes(stack) :
        /\ stack.depth < MaxPushDepth
        /\ Begin(Call("push_dom_node", node, "", o.cb))
        /\ Result(push_dom_node(Fresh, node, o))
        /\ pc' = IF stack'.depth < 0 THEN "crashed" ELSE "idle"

ReentrantNext == Next \/ PushReentrant

ReentrantSpec == Init /\ [][ReentrantNext]_vars

\* walk_dom_nodes runs its loop to the end: the calls are synchronous, an
\* iteration that can be made is made and the call returns when the loop
\* condition fails.  The caller need not ever make another call.
\* The fairness of the loop is weak fairness of WalkStep, written out with
\* the condition under which an iteration changes the state.
WalkCanStep ==
    /\ pc = "walk"
    /\ dom_stack_has_parents(stack)
    /\ \E o \in Outcomes(stack), garbage \in GarbageNodes :
          walk_iteration(Running, o, garbage) # Running

FairSpec ==
    /\ Spec
    /\ WF_vars(WalkReturn)
    /\ ([]<>(~WalkCanStep) \/ []<><<WalkStep>>_vars)

(***************************************************************************)
(* A caller that follows a sequence of its push_dom_node and pop_dom_node  *)
(* calls: mark holds the stack at the start of the sequence, the number of *)
(* states the sequence has pushed and not yet popped, and whether a push   *)
(* of the sequence was refused.  A pop that would remove a state that was  *)
(* open before the sequence (or finds the stack empty) ends the sequence.  *)
(***************************************************************************)
SeqMark ==
    /\ pc = "idle"
    /\ mark' = [set |-> TRUE, stack |-> stack, open |-> 0, refused |-> FALSE]
    /\ UNCHANGED <<stack, log, ret, pc, pre, last, exit_types>>

SeqPush ==
    \E node \in PushNodes, o \in Outcomes(stack) :
        /\ stack.depth < MaxPushDepth
        /\ Called(Call("push_dom_node", node, "", ""))
        /\ Result(push_dom_node(Fresh, node, o))
        /\ pc' = "idle"
        /\ mark' = IF ~mark.set THEN mark
                   ELSE IF ret' # NULL THEN [mark EXCEPT !.open = mark.open + 1]
                   ELSE [mark EXCEPT !.refused = TRUE]

SeqPop ==
    \E garbage \in Garbage(stack) :
        /\ Called(Call("pop_dom_node", NULL, "", ""))
        /\ Result(pop_dom_node(Fresh, garbage))
        /\ pc' = "idle"
        /\ mark' = IF mark.set /\ mark.open > 0
                   THEN [mark EXCEPT !.open = mark.open - 1]
                   ELSE NoMark

SeqNext == SeqMark \/ SeqPush \/ SeqPop

SeqSpec == Init /\ [][SeqNext]_vars

(***************************************************************************)
(* Vocabulary of the properties.                                           *)
(***************************************************************************)
Kinds(l, kinds) == SelectSeq(l, LAMBDA e : e[1] \in kinds)

RECURSIVE NodesOf(_)
NodesOf(l) == IF l = <<>> THEN <<>> ELSE <<l[1][2]>> \o NodesOf(Tail(l))

Pushed(l) == NodesOf(Kinds(l, {"push"}))
Popped(l) == NodesOf(Kinds(l, {"pop"}))
Refused(l) == Kinds(l, {"reject", "fail"})

WalkCalled == last.op = "walk_dom_nodes"
WalkReturned == WalkCalled /\ pc = "idle"

\* the members of a node: those of its first list, then of its second
members(n) == entries(first_list(n)) \o entries(second_list(n))

\* depth-first pre-order and post-order of the tree below n, by recursion
RECURSIVE PreOrder(_), PreOrderAll(_), PostOrder(_), PostOrderAll(_)
PreOrder(n) == <<n>> \o PreOrderAll(members(n))
PreOrderAll(ns) == IF ns = <<>> THEN <<>> ELSE PreOrder(Head(ns)) \o PreOrderAll(Tail(ns))
PostOrder(n) == PostOrderAll(members(n)) \o <<n>>
PostOrderAll(ns) == IF ns = <<>> THEN <<>> ELSE PostOrder(Head(ns)) \o PostOrderAll(Tail(ns))

IsPrefix(a, b) == Len(a) <= Len(b) /\ SubSeq(b, 1, Len(a)) = a

\* replay of the pushes and pops of l on the node sequence open: every pop
\* removes the node pushed last
RECURSIVE Lifo(_, _)
Lifo(l, open) ==
    IF l = <<>> THEN TRUE
    ELSE LET e == Head(l) IN
         CASE e[1] = "push" -> Lifo(Tail(l), Append(open, e[2]))
           [] e[1] = "pop" -> /\ open # <<>>
                              /\ open[Len(open)] = e[2]
                              /\ Lifo(Tail(l), SubSeq(open, 1, Len(open) - 1))
           [] OTHER -> Lifo(Tail(l), open)

(***************************************************************************)
(* C1: a walk started on an empty stack, in which no push is rejected or   *)
(* fails, pushes the nodes of the tree in depth-first pre-order (first     *)
(* list, then second list, each member followed by its subtree), every     *)
(* node once, and pops them in LIFO order: while it runs the pushes are a  *)
(* prefix of the pre-order, when it returns they are the whole pre-order   *)
(* and the pops are the post-order.                                        *)
(***************************************************************************)
C1_WalkPreOrder ==
    (WalkCalled /\ pre.depth = 0 /\ Refused(log) = <<>>)
        => /\ IsPrefix(Pushed(log), PreOrder(last.node))
           /\ Lifo(log, <<>>)
           /\ pc = "idle" => /\ Pushed(log) = PreOrder(last.node)
                             /\ Popped(log) = PostOrder(last.node)

\* the walk of Document > div(id) > span > Text, script > Text has returned
C1_Witness ==
    /\ WalkReturned /\ pre.depth = 0 /\ Refused(log) = <<>>
    /\ last.node = 1
    /\ Pushed(log) = <<1, 2, 3, 4, 5, 6, 7>>
    /\ Popped(log) = <<3, 5, 4, 7, 6, 2, 1>>

(***************************************************************************)
(* C2 as claimed: walk_dom_nodes returns with the depth it was called at   *)
(* and with the states that were open before the call unchanged.           *)
(***************************************************************************)
C2_ReturnsAtPreDepth ==
    WalkReturned
        => /\ stack.depth = pre.depth
           /\ \A i \in 1 .. pre.depth : stack.states[i] = pre.states[i]

(***************************************************************************)
(* C2 amended: walk_dom_nodes ends exactly when the stack is empty.  On    *)
(* return the depth is 0 and every state is cleared: the walk has popped   *)
(* every state it pushed and the pre.depth states open before it.  On a    *)
(* stack that was empty, the walk is over exactly when the state of the    *)
(* root has been popped.                                                   *)
(***************************************************************************)
C2_ReturnsWhenEmpty ==
    /\ WalkReturned
        => /\ stack.depth = 0
           /\ \A i \in 1 .. Len(stack.states) : stack.states[i] = ZeroState
           /\ Len(Popped(log)) = Len(Pushed(log)) + pre.depth
    /\ (WalkCalled /\ pre.depth = 0 /\ Pushed(log) # <<>>)
        => (stack.depth = 0 <=> log[Len(log)] = <<"pop", last.node, 0, 1>>)

\* a walk called with a state open has returned, after pushing some nodes
C2_Witness ==
    /\ WalkReturned /\ pre.depth > 0
    /\ Len(Pushed(log)) > 1
    /\ stack.depth = 0

(***************************************************************************)
(* C3 as claimed: when the push of the root is rejected or fails, nothing  *)
(* else happens in the walk, whatever the stack held.                      *)
(***************************************************************************)
RootRefused == WalkCalled /\ log # <<>> /\ log[1][1] \in {"reject", "fail"}

C3_RefusedRootEndsWalk == RootRefused => Len(log) = 1

(***************************************************************************)
(* C3 amended: when walk_dom_nodes is called on an empty stack and the     *)
(* push of the root is rejected or fails, the walk ends at once: no        *)
(* further push, pop or callback, and the depth is still 0.                *)
(***************************************************************************)
C3_RefusedRootEndsWalkOnEmpty ==
    (RootRefused /\ pre.depth = 0)
        => /\ Len(log) = 1
           /\ stack.depth = 0
           /\ pc \in {"walk", "idle"}

\* the entry callback rejected the root of a walk on an empty stack, and the
\* walk has returned
C3_Witness ==
    /\ WalkReturned /\ pre.depth = 0
    /\ log = <<(<<"reject", last.node, 0, 0>>)>>

(***************************************************************************)
(* C4 as claimed: the depth never exceeds DOM_STACK_MAX_DEPTH.             *)
(***************************************************************************)
C4_DepthAtMostMax == stack.depth <= DOM_STACK_MAX_DEPTH

(***************************************************************************)
(* C4 amended: the depth never exceeds DOM_STACK_MAX_DEPTH + 1.            *)
(***************************************************************************)
C4_DepthAtMostMaxPlusOne == stack.depth <= DOM_STACK_MAX_DEPTH + 1

\* the walk of the chain has pushed one state more than DOM_STACK_MAX_DEPTH
C4_Witness == stack.depth = DOM_STACK_MAX_DEPTH + 1 /\ pc = "walk"

(***************************************************************************)
(* C5 as claimed: a push_dom_node call made at depth DOM_STACK_MAX_DEPTH   *)
(* fails.                                                                  *)
(***************************************************************************)
PushCalls(l) == Kinds(l, {"push", "reject", "fail"})

InSeq(l) == {l[i] : i \in 1 .. Len(l)}

C5_PushAtMaxFails ==
    \A e \in InSeq(PushCalls(log)) : e[4] = DOM_STACK_MAX_DEPTH => e[1] = "fail"

(***************************************************************************)
(* C5 amended: a push_dom_node call made when the depth is greater than    *)
(* DOM_STACK_MAX_DEPTH (that is DOM_STACK_MAX_DEPTH + 1) fails: it returns *)
(* NULL, invokes no callback and leaves the depth and every state          *)
(* unchanged.  A call made at a depth up to DOM_STACK_MAX_DEPTH is not     *)
(* refused: unless an allocation fails or the callback rejects, it pushes  *)
(* the state.                                                              *)
(***************************************************************************)
Accepting == [oom |-> 0, cb |-> "accept"]

C5_PushBeyondMaxFails ==
    /\ \A e \in InSeq(PushCalls(log)) : e[4] > DOM_STACK_MAX_DEPTH => e[1] = "fail"
    /\ stack.depth <= DOM_STACK_MAX_DEPTH
        => \A node \in PushNodes :
              LET w == push_dom_node(Running, node, Accepting)
              IN  /\ w.ret # NULL
                  /\ w.stack.depth = stack.depth + 1
                  /\ w.stack.states[stack.depth + 1].node = node
    /\ stack.depth > DOM_STACK_MAX_DEPTH
        => \A node \in Nodes, o \in Outcomes(stack) :
              LET w == push_dom_node(Running, node, o)
              IN  /\ w.ret = NULL
                  /\ w.stack = stack
                  /\ w.log = Append(log, <<"fail", node, 0, stack.depth>>)

\* a push at depth DOM_STACK_MAX_DEPTH went through and the next one failed
C5_Witness ==
    /\ \E e \in InSeq(log) : e[1] = "push" /\ e[4] = DOM_STACK_MAX_DEPTH
    /\ \E e \in InSeq(log) : e[1] = "fail" /\ e[4] = DOM_STACK_MAX_DEPTH + 1

(***************************************************************************)
(* C6 as claimed: every state pushed for a node whose type has an entry    *)
(* callback holds that callback as its exit callback.                      *)
(***************************************************************************)
Registered(node) == callbacks(dom_node(node).type) # NoCallback

C6_PushRecordsCallback ==
    /\ \A i \in 1 .. stack.depth :
          (stack.states[i].node # NULL /\ Registered(stack.states[i].node))
              => stack.states[i].callback = callbacks(dom_node(stack.states[i].node).type)
    /\ \A e \in InSeq(Kinds(log, {"push"})) : Registered(e[2]) => e[3] = 1

(***************************************************************************)
(* C6 amended: push_dom_node does not record an exit callback itself; a    *)
(* state has one exactly when the entry callback stored it in the state    *)
(* while it ran.  The pop of a state that has one (by pop_dom_node,        *)
(* pop_dom_nodes or the walk) invokes it exactly once, right before the    *)
(* state is removed, and no exit callback is invoked otherwise.            *)
(***************************************************************************)
OpenStates(s) == [i \in 1 .. s.depth |-> <<s.states[i].node, IsSet(s.states[i].callback)>>]

IsExit(e) == e # <<>> /\ e[1] = "exit"

\* replay of l on the open states (node, has a callback), prev the event
\* before l: an exit event is followed by the pop of its state, and a pop is
\* preceded by the exit event of its state exactly when the state has a
\* callback
RECURSIVE ExitOnce(_, _, _)
ExitOnce(l, open, prev) ==
    IF l = <<>> THEN ~IsExit(prev)
    ELSE LET e == Head(l) IN
         CASE e[1] = "pop" ->
                /\ open # <<>>
                /\ open[Len(open)][1] = e[2]
                /\ open[Len(open)][2] = 1 <=> (IsExit(prev) /\ prev[2] = e[2])
                /\ ExitOnce(Tail(l), SubSeq(open, 1, Len(open) - 1), e)
           [] e[1] = "push" ->
                /\ ~IsExit(prev)
                /\ ExitOnce(Tail(l), Append(open, <<e[2], e[3]>>), e)
           [] OTHER ->
                /\ ~IsExit(prev)
                /\ ExitOnce(Tail(l), open, e)

C6_ExitCallbackOncePerSetState ==
    /\ \A i \in 1 .. stack.depth :
          stack.states[i].callback # NoCallback
              => /\ dom_node(stack.states[i].node).type \in exit_types
                 /\ stack.states[i].callback = callbacks(dom_node(stack.states[i].node).type)
    /\ \A e \in InSeq(Kinds(log, {"push"})) :
          e[3] = 1 <=> (Registered(e[2]) /\ dom_node(e[2]).type \in exit_types)
    /\ ExitOnce(log, OpenStates(pre), <<>>)

\* a walk of the document has returned in which the state of the document
\* had no exit callback although its type has an entry callback, and the
\* states of the elements had one, each invoked on its pop
C6_Witness ==
    /\ WalkReturned /\ pre.depth = 0 /\ last.node = 1
    /\ <<"push", 1, 0, 0>> \in InSeq(log)
    /\ <<"push", 2, 1, 1>> \in InSeq(log)
    /\ Len(Kinds(log, {"exit"})) = 3

(***************************************************************************)
(* C7 as claimed: a push whose entry callback rejects returns NULL, leaves *)
(* the new state cleared, the depth at its value before the push and the   *)
(* states below unchanged; and in a walk, once a node is rejected no node  *)
(* of its subtree is pushed.                                               *)
(***************************************************************************)
Rejecting == [oom |-> 0, cb |-> "reject"]

RejectedPushRestores ==
    \A node \in Rejectable :
        (Registered(node) /\ stack.depth <= DOM_STACK_MAX_DEPTH)
            => LET w == push_dom_node(Running, node, Rejecting)
               IN  /\ w.ret = NULL
                   /\ w.stack.depth = stack.depth
                   /\ w.stack.states[stack.depth + 1] = ZeroState
                   /\ \A i \in 1 .. stack.depth : w.stack.states[i] = stack.states[i]

RejectedPushRestored ==
    (last.op = "push_dom_node" /\ Kinds(log, {"reject"}) # <<>>)
        => /\ ret = NULL
           /\ stack.depth = pre.depth
           /\ stack.states[pre.depth + 1] = ZeroState
           /\ \A i \in 1 .. pre.depth : stack.states[i] = pre.states[i]

Subtree(n) == InSeq(PreOrder(n)) \ {n}

RejectedSubtreeNotPushed ==
    \A i, j \in 1 .. Len(log) :
        (i < j /\ log[i][1] = "reject" /\ log[j][1] \in {"push", "reject", "fail"})
            => log[j][2] \notin Subtree(log[i][2])

C7_RejectedSubtreeNeverPushed ==
    /\ RejectedPushRestores
    /\ RejectedPushRestored
    /\ WalkCalled => RejectedSubtreeNotPushed

(***************************************************************************)
(* C7 amended: the same, the part on the walk for a walk_dom_nodes started *)
(* on an empty stack.                                                      *)
(***************************************************************************)
C7_RejectedSubtreeNeverPushedOnEmpty ==
    /\ RejectedPushRestores
    /\ RejectedPushRestored
    /\ (WalkCalled /\ pre.depth = 0) => RejectedSubtreeNotPushed

\* a walk of the document on an empty stack has returned in which "script"
\* was rejected: its text was never pushed
C7_Witness ==
    /\ WalkReturned /\ pre.depth = 0 /\ last.node = 1
    /\ <<"reject", 6, 0, 2>> \in InSeq(log)
    /\ Pushed(log) = <<1, 2, 3, 4, 5>>

(***************************************************************************)
(* C8: pop_dom_nodes with a state that matches removes the topmost         *)
(* matching state and every state above it and nothing else: the depth is  *)
(* the position of that state (counted from 0), the states below it are    *)
(* unchanged, and it and the states above it are cleared, their objects    *)
(* zeroed and no other object touched.                                     *)
(***************************************************************************)
Matches(s, i, type, string) ==
    /\ dom_node(s.states[i].node).type = type
    /\ dom_node(s.states[i].node).string = string

\* the position (from 1) of the topmost state that matches, 0 when none does
TargetOf(s, type, string) ==
    IF \E i \in 1 .. s.depth : Matches(s, i, type, string)
    THEN CHOOSE i \in 1 .. s.depth :
            /\ Matches(s, i, type, string)
            /\ \A j \in (i + 1) .. s.depth : ~Matches(s, j, type, string)
    ELSE 0

Unwound == last.op = "pop_dom_nodes"
UnwindTarget == TargetOf(pre, last.type, last.string)

C8_UnwindRemovesTargetAndAbove ==
    (Unwound /\ UnwindTarget # 0)
        => /\ stack.depth = UnwindTarget - 1
           /\ \A i \in 1 .. (UnwindTarget - 1) : stack.states[i] = pre.states[i]
           /\ \A i \in UnwindTarget .. pre.depth : stack.states[i] = ZeroState
           /\ stack.state_objects = [i \in 1 .. Len(pre.state_objects) |->
                                        IF UnwindTarget <= i /\ i <= pre.depth
                                        THEN 0 ELSE pre.state_objects[i]]

\* Document, div and span were open and the stack was unwound to div
C8_Witness ==
    /\ Unwound /\ last.string = "div"
    /\ pre.depth = 3
    /\ OpenStates(pre)[1][1] = 1 /\ OpenStates(pre)[2][1] = 2 /\ OpenStates(pre)[3][1] = 4
    /\ stack.depth = 1 /\ stack.states[1].node = 1

(***************************************************************************)
(* C9: during pop_dom_nodes with a matching target, the exit callbacks of  *)
(* the removed states that have one are invoked from the top state down to *)
(* the target state, the target's last, each once and each with the node   *)
(* of the target state as its node argument.                               *)
(***************************************************************************)
\* the exit events expected for the states i down to t of s
RECURSIVE ExitsDownTo(_, _, _)
ExitsDownTo(s, i, t) ==
    IF i < t THEN <<>>
    ELSE (IF s.states[i].callback # NoCallback
          THEN <<(<<"exit", s.states[i].node, s.states[t].node, i>>)>>
          ELSE <<>>) \o ExitsDownTo(s, i - 1, t)

RECURSIVE NodesDownTo(_, _, _)
NodesDownTo(s, i, t) ==
    IF i < t THEN <<>> ELSE <<s.states[i].node>> \o NodesDownTo(s, i - 1, t)

C9_UnwindExitOrderAndContext ==
    (Unwound /\ UnwindTarget # 0)
        => /\ Kinds(log, {"exit"}) = ExitsDownTo(pre, pre.depth, UnwindTarget)
           /\ Popped(log) = NodesDownTo(pre, pre.depth, UnwindTarget)
           /\ ExitOnce(log, OpenStates(pre), <<>>)

\* div and span were open, both with an exit callback, and the stack was
\* unwound to div: the callback of span got the node of div, then that of div
C9_Witness ==
    /\ Unwound /\ last.string = "div"
    /\ log = << <<"exit", 4, 2, 3>>, <<"pop", 4, 0, 3>>,
                <<"exit", 2, 2, 2>>, <<"pop", 2, 0, 2>> >>

(***************************************************************************)
(* C10: pop_dom_nodes for a type and string that no state on the stack     *)
(* matches, the empty stack included, pops nothing: the stack, with its    *)
(* depth, states and state objects, is unchanged and no exit callback is   *)
(* invoked.                                                                *)
(***************************************************************************)
C10_UnwindWithoutTargetIsNoOp ==
    (Unwound /\ \A i \in 1 .. pre.depth : ~Matches(pre, i, last.type, last.string))
        => /\ stack = pre
           /\ log = <<>>

\* pop_dom_nodes was called with states open of which none matches
C10_Witness ==
    /\ Unwound
    /\ pre.depth = 2
    /\ \A i \in 1 .. pre.depth : ~Matches(pre, i, last.type, last.string)
    /\ stack.depth = 2

(***************************************************************************)
(* C11: over every sequence of push_dom_node and pop_dom_node calls in     *)
(* which no pop removes a state that was open before the sequence, the     *)
(* depth is the depth before the sequence plus the number of accepted      *)
(* pushes not yet popped, a rejected or failed push counting for nothing;  *)
(* so when the sequence is balanced the depth is back at its value before  *)
(* the sequence.  The states that were open before the sequence, and their *)
(* objects, are unchanged throughout.                                      *)
(***************************************************************************)
C11_BalancedSequenceRestoresDepth ==
    mark.set
        => /\ stack.depth = mark.stack.depth + mark.open
           /\ mark.open = 0 => stack.depth = mark.stack.depth
           /\ \A i \in 1 .. mark.stack.depth :
                 /\ stack.states[i] = mark.stack.states[i]
                 /\ stack.object_size # 0
                       => stack.state_objects[i] = mark.stack.state_objects[i]

\* a sequence started with two states open has pushed a state and popped
\* it, and a push of the sequence was rejected
C11_Witness ==
    /\ mark.set /\ mark.open = 0 /\ mark.refused
    /\ mark.stack.depth = 2
    /\ last.op = "pop_dom_node" /\ pre.depth = 3
    /\ stack.depth = 2

(***************************************************************************)
(* C12 as claimed: when the entry callback returns a substitute for the    *)
(* node pushed, the push is accepted and the substitute is the node of the *)
(* new state, so that walk_dom_nodes goes on with the members of the       *)
(* substitute: the node a push of the walk is made for, one state above a  *)
(* state just pushed, is a member of what the callback returned for it.    *)
(***************************************************************************)
Substituted(node) == Registered(node) /\ substitute(node) # node

C12_SubstituteIsTraversed ==
    /\ (last.op = "push_dom_node" /\ ret # NULL /\ Substituted(last.node))
          => /\ ret = substitute(last.node)
             /\ stack.depth = pre.depth + 1
             /\ stack.states[stack.depth].node = ret
    /\ WalkCalled
          => \A i \in 1 .. (Len(log) - 1) :
                (/\ log[i][1] = "push"
                 /\ Substituted(log[i][2])
                 /\ log[i + 1][1] \in {"push", "reject", "fail"}
                 /\ log[i + 1][4] = log[i][4] + 1)
                    => log[i + 1][2] \in InSeq(members(substitute(log[i][2])))

(***************************************************************************)
(* C13 as claimed: with a non-zero object size, the object of every        *)
(* position that holds no open state (every position from the depth on) is *)
(* zero, so that the entry callback of the next push is handed a zeroed    *)
(* object.                                                                 *)
(***************************************************************************)
C13_ObjectsZeroBeyondDepth ==
    stack.object_size # 0
        => \A i \in (stack.depth + 1) .. Len(stack.state_objects) :
              stack.state_objects[i] = 0

(***************************************************************************)
(* C14: at every point of a walk_dom_nodes started on an empty stack, the  *)
(* states on the stack are the path from the root of the walk to the node  *)
(* being visited: the bottom state holds the root and the node of every    *)
(* other state is the member, at the index before the one the state below  *)
(* stands at, of the list that state iterates, a list of its node.         *)
(***************************************************************************)
C14_StatesAreThePathFromTheRoot ==
    (WalkCalled /\ pre.depth = 0)
        => /\ stack.depth >= 1 => stack.states[1].node = last.node
           /\ \A i \in 2 .. stack.depth :
                 LET below == stack.states[i - 1]
                 IN  /\ below.list # NULL
                     /\ below.list \in {first_list(below.node), second_list(below.node)}
                     /\ below.index >= 1
                     /\ is_dom_node_list_member(below.list, below.index - 1)
                     /\ stack.states[i].node = entries(below.list)[below.index]

\* the walk of the document stands at the text of "script", the second
\* child of div: Document, div, script and the text are open
C14_Witness ==
    /\ WalkCalled /\ pre.depth = 0 /\ pc = "walk"
    /\ stack.depth = 4
    /\ stack.states[1].node = 1 /\ stack.states[2].node = 2
    /\ stack.states[3].node = 6 /\ stack.states[4].node = 7
    /\ stack.states[2].list = second_list(2) /\ stack.states[2].index = 2

(***************************************************************************)
(* C15 as claimed: the node handed to an exit callback is always the node  *)
(* of a state that is on the stack when the callback is invoked: in        *)
(* pop_dom_nodes the target state, otherwise (pop_dom_node, also when the  *)
(* walk calls it) the state right below the top one; also when the state   *)
(* popped is the only one on the stack.                                    *)
(***************************************************************************)
\* replay of l on the nodes of the open states: every exit event outside an
\* unwind has a state below the top one and carries its node
RECURSIVE ExitContextBelowTop(_, _)
ExitContextBelowTop(l, open) ==
    IF l = <<>> THEN TRUE
    ELSE LET e == Head(l) IN
         CASE e[1] = "push" -> ExitContextBelowTop(Tail(l), Append(open, e[2]))
           [] e[1] = "pop" ->
                ExitContextBelowTop(Tail(l), SubSeq(open, 1, Len(open) - 1))
           [] e[1] = "exit" -> /\ Len(open) >= 2
                               /\ e[3] = open[Len(open) - 1]
                               /\ ExitContextBelowTop(Tail(l), open)
           [] OTHER -> ExitContextBelowTop(Tail(l), open)

C15_ExitContextIsOnStack ==
    /\ (Unwound /\ UnwindTarget # 0)
          => \A e \in InSeq(Kinds(log, {"exit"})) :
                /\ e[3] = pre.states[UnwindTarget].node
                /\ UnwindTarget <= e[4]
    /\ last.op \in {"pop_dom_node", "walk_dom_nodes"}
          => ExitContextBelowTop(log, [i \in 1 .. pre.depth |-> pre.states[i].node])

(***************************************************************************)
(* C16 as claimed: in walk_dom_nodes, when the push of a child is refused  *)
(* (rejected by its entry callback, or failed at the depth limit or for    *)
(* lack of memory), the state of its parent is popped in the same loop     *)
(* iteration, and none of the members of the parent that come after the    *)
(* child (the rest of the list and, after a member of the first list, the  *)
(* whole second list) is pushed from then on.                              *)
(***************************************************************************)
\* the position in l of the pop that must follow the refused push at i
PopAfter(l, i) == IF i < Len(l) /\ l[i + 1][1] = "exit" THEN i + 2 ELSE i + 1

\* the push at i > 1 of l, of a child, was refused: the pop of the state
\* the child was to be pushed on follows at once, and it is its parent's
ParentPoppedAt(l, i) ==
    LET j == PopAfter(l, i)
    IN  /\ j <= Len(l)
        /\ l[j][1] = "pop"
        /\ l[j][4] = l[i][4]
        /\ l[i][2] \in InSeq(members(l[j][2]))
        /\ j = i + 2 => l[i + 1][2] = l[j][2]

\* the members of parent that come after child
RemainingAfter(parent, child) ==
    LET ms == members(parent)
    IN  {ms[k] : k \in {k \in 1 .. Len(ms) : \E c \in 1 .. (k - 1) : ms[c] = child}}

ChildRefusals(l) == {i \in 2 .. Len(l) : l[i][1] \in {"reject", "fail"}}

ParentPoppedOnRefusal == \A i \in ChildRefusals(log) : ParentPoppedAt(log, i)

RemainingNeverPushed ==
    \A i \in ChildRefusals(log) : \A k \in (i + 1) .. Len(log) :
        log[k][1] \in {"push", "reject", "fail"}
            => log[k][2] \notin RemainingAfter(log[PopAfter(log, i)][2], log[i][2])

C16_RefusedChildPopsParent ==
    WalkCalled => (ParentPoppedOnRefusal /\ RemainingNeverPushed)

(***************************************************************************)
(* C16 amended: the parent is popped in the same iteration in every walk;  *)
(* that its remaining members are never pushed holds for a walk_dom_nodes  *)
(* started on an empty stack.                                              *)
(***************************************************************************)
C16_RefusedChildPopsParentOnEmpty ==
    WalkCalled => /\ ParentPoppedOnRefusal
                  /\ pre.depth = 0 => RemainingNeverPushed

\* a walk of the document on an empty stack has returned in which span, the
\* first child of div, was rejected: div was popped at once and script, its
\* other child, was never pushed
C16_Witness ==
    /\ WalkReturned /\ pre.depth = 0 /\ last.node = 1
    /\ <<"reject", 4, 0, 2>> \in InSeq(log)
    /\ Pushed(log) = <<1, 2, 3>>
    /\ Popped(log) = <<3, 2, 1>>

(***************************************************************************)
(* C17: push_dom_node fails for the depth exactly when the depth at the    *)
(* call is greater than DOM_STACK_MAX_DEPTH: with no allocation failing, a *)
(* call fails if and only if the depth is greater than the limit, and then  *)
(* it returns NULL, invokes no callback and changes neither the depth nor  *)
(* any state or object.  So the depth DOM_STACK_MAX_DEPTH + 1 is reached   *)
(* and never exceeded.                                                     *)
(***************************************************************************)
Failed(w) == Len(w.log) > 0 /\ w.log[Len(w.log)][1] = "fail"

C17_DepthExceededExactly ==
    /\ stack.depth <= DOM_STACK_MAX_DEPTH + 1
    /\ \A e \in InSeq(PushCalls(log)) : e[4] > DOM_STACK_MAX_DEPTH => e[1] = "fail"
    /\ \A node \in PushNodes, cb \in {"accept", "reject"} :
          LET w == push_dom_node(Fresh, node, [oom |-> 0, cb |-> cb])
          IN  /\ Failed(w) <=> stack.depth > DOM_STACK_MAX_DEPTH
              /\ Failed(w) => /\ w.ret = NULL
                              /\ w.stack = stack
                              /\ w.log = <<(<<"fail", node, 0, stack.depth>>)>>

\* the walk of the chain on an empty stack has returned: it pushed
\* DOM_STACK_MAX_DEPTH + 1 states and the one push made at that depth failed
C17_Witness ==
    /\ WalkReturned /\ pre.depth = 0 /\ last.node = ChainFirst
    /\ Len(Pushed(log)) = DOM_STACK_MAX_DEPTH + 1
    /\ Kinds(log, {"reject", "fail"})
          = <<(<<"fail", ChainFirst + DOM_STACK_MAX_DEPTH + 1, 0, DOM_STACK_MAX_DEPTH + 1>>)>>

(***************************************************************************)
(* C18: with entry callbacks that accept, substitute or reject and do not  *)
(* push or pop themselves, every walk_dom_nodes returns, also when pushes  *)
(* fail at the depth limit or for lack of memory, and never reads a        *)
(* cleared state; while it runs the open states are those its pushes and   *)
(* pops leave, every pop removing the state pushed last, and when it       *)
(* returns every state it pushed has been popped, once.                    *)
(***************************************************************************)
\* the nodes of the states left open by the pushes and pops of l
RECURSIVE OpenAfter(_, _)
OpenAfter(l, open) ==
    IF l = <<>> THEN open
    ELSE LET e == Head(l) IN
         CASE e[1] = "push" -> OpenAfter(Tail(l), Append(open, e[2]))
           [] e[1] = "pop" -> OpenAfter(Tail(l), SubSeq(open, 1, Len(open) - 1))
           [] OTHER -> OpenAfter(Tail(l), open)

OpenNodes(s) == [i \in 1 .. s.depth |-> s.states[i].node]

WalkPopsWhatItPushed ==
    WalkCalled
        => /\ pc # "crashed"
           /\ Lifo(log, OpenNodes(pre))
           /\ OpenAfter(log, OpenNodes(pre)) = OpenNodes(stack)
           /\ pc = "idle" => /\ stack.depth = 0
                             /\ Len(Popped(log)) = Len(Pushed(log)) + pre.depth

C18_WalkTerminates ==
    /\ []WalkPopsWhatItPushed
    /\ (pc = "walk") ~> (pc = "idle")

\* the walk of the chain on an empty stack, which runs into the depth limit,
\* has returned with every state it pushed popped
C18_Witness ==
    /\ WalkReturned /\ pre.depth = 0 /\ last.node = ChainFirst
    /\ Kinds(log, {"fail"}) # <<>>
    /\ Popped(log) = [i \in 1 .. (DOM_STACK_MAX_DEPTH + 1) |->
                        ChainFirst + DOM_STACK_MAX_DEPTH + 1 - i]
    /\ stack.depth = 0

(***************************************************************************)
(* C19 as claimed: also with entry callbacks that call push_dom_node or    *)
(* pop_dom_node on the stack before they return, after a push_dom_node of  *)
(* the caller has returned no state on the stack (below the depth) is a    *)
(* cleared one, and a push that was rejected leaves the depth at its value *)
(* before the push.                                                        *)
(***************************************************************************)
C19_ReentrantPushIsSafe ==
    last.op = "push_dom_node"
        => /\ \A i \in 1 .. stack.depth : stack.states[i].node # NULL
           /\ ret = NULL => stack.depth = pre.depth

(***************************************************************************)
(* C20: the arrays of the stack always hold a multiple of                  *)
(* DOM_STACK_STATE_GRANULARITY + 1 (8) entries, at least as many as the    *)
(* depth (the objects when an object size is configured), and a push that  *)
(* succeeds, whether it reallocates or not, leaves them so and leaves      *)
(* every state and object below the depth of the call as it was.  The      *)
(* object an entry callback wrote is still there while its state is open,  *)
(* through the growth of the arrays.                                       *)
(***************************************************************************)
Granule == DOM_STACK_STATE_GRANULARITY + 1

Sufficient(s) ==
    /\ Len(s.states) % Granule = 0
    /\ Len(s.states) >= s.depth
    /\ s.object_size # 0 => /\ Len(s.state_objects) % Granule = 0
                            /\ Len(s.state_objects) >= s.depth

KeptBelow(s, t, depth) ==
    \A i \in 1 .. depth :
        /\ t.states[i] = s.states[i]
        /\ s.object_size # 0 => t.state_objects[i] = s.state_objects[i]

C20_GrowthKeepsContents ==
    /\ Sufficient(stack)
    /\ \A node \in PushNodes, o \in Outcomes(stack) :
          LET w == push_dom_node(Fresh, node, o)
          IN  w.ret # NULL => /\ Sufficient(w.stack)
                              /\ w.stack.depth = stack.depth + 1
                              /\ KeptBelow(stack, w.stack, stack.depth)
    /\ stack.object_size # 0
          => \A i \in 1 .. stack.depth :
                /\ stack.states[i].data = i
                /\ Registered(stack.states[i].node) => stack.state_objects[i] = 1

\* a walk of the chain, with objects, is on its way back at depth 8: the
\* arrays have grown to 16 entries at depth 9 and the states and objects
\* below are those pushed before the growth
C20_Witness ==
    /\ WalkCalled /\ pre.depth = 0 /\ last.node = ChainFirst /\ pc = "walk"
    /\ stack.object_size # 0
    /\ stack.depth = Granule
    /\ Len(stack.states) = 2 * Granule /\ Len(stack.state_objects) = 2 * Granule
    /\ Popped(log) # <<>>
    /\ \A i \in 1 .. Granule : stack.states[i].node = ChainFirst + i - 1

====
